---- MODULE Spec2Model ----
(***************************************************************************)
(* Package backup/restore orchestration (backend/src/backup/mod.rs) and    *)
(* the notification ledger (backend/src/notifications.rs) of start-os,     *)
(* with reset_password (backend/src/auth.rs) and ensure_trailing_slashes   *)
(* (backend/src/version/v0_3_3.rs).                                        *)
(***************************************************************************)
EXTENDS Integers, Sequences, FiniteSets, TLC

VARIABLES
    bpc,        \* position of the running BackupActions call
    bop,        \* "none" | "create" | "restore": the call bpc belongs to
    fs,         \* content of the files of the package's backup directory
    gen,        \* number of create calls started so far
    clock,      \* Utc::now() as seen by the backup orchestrator
    bl,         \* locals of the running call
    g,          \* history of the running call (what ran, and when)
    bresult,    \* Result returned by the last finished call
    dbMarket,   \* installed record's marketplace_url in the database
    npc,        \* per database handle: position of its notify call
    nloc,       \* per database handle: locals of its notify call
    rows,       \* the notifications table
    nextId,     \* next value of the table's id sequence
    unread,     \* server_info.unread_notification_count
    cache,      \* NotificationManager.cache: key -> timestamp (seconds)
    now,        \* wall clock of the ledger, in ticks
    ins,        \* rows inserted since unread was last put to zero
    admitAt,    \* per key: the last admitted notify call (its tick, whether it finished)
    ev,         \* what the last step of the ledger did
    keystore,   \* the keys that Key::for_package returns for the package
    envelope,   \* one BackupMetadata value on its way through to_vec and from_slice
    restarted,  \* "no", or how the ledger was when the server last restarted
    malformed,  \* the stored fields of notification rows that do not parse
    auth,       \* the account in memory, in the secret store and in the database
    slash       \* a url on its way through ensure_trailing_slashes

bvars == <<bpc, bop, fs, gen, clock, bl, g, bresult, dbMarket>>
nvars == <<npc, nloc, rows, nextId, unread, cache, now, ins, admitAt, ev>>

svars == <<keystore, envelope, restarted, malformed, auth, slash>>

vars == <<bpc, bop, fs, gen, clock, bl, g, bresult, dbMarket,
          npc, nloc, rows, nextId, unread, cache, now, ins, admitAt, ev,
          keystore, envelope, restarted, malformed, auth, slash>>

(***************************************************************************)
(* Bounds                                                                  *)
(***************************************************************************)
MaxBackups == 2
MaxClock == 3
MaxRows == 2
MaxNow == 3
MaxInterval == 1
MaxLimit == 1
MaxKeys == 3
MaxListRows == 42

(***************************************************************************)
(* Values                                                                  *)
(***************************************************************************)
Urls == {"None", "https://a/", "https://b/"}
ProcMsgs == {"disk full", "exit 1"}
\* execute() returns Result<Result<(), (i32, String)>, Error>
ProcOutcomes == {"ok", "procerr", "runtimeerr"}

ArchivePath == "pkg.s9pk"
MetadataPath == "metadata.cbor"
TmpPath(path) == IF path = ArchivePath THEN "pkg.s9pk.tmp" ELSE "metadata.cbor.tmp"
Paths == {ArchivePath, MetadataPath, TmpPath(ArchivePath), TmpPath(MetadataPath)}

\* A file's content: which create call produced it (gen), how much of it is
\* there (part), and for an envelope the fields of BackupMetadata.
\* Keys of the secret store: which key it is (id) and the interface it is
\* bound to, if any (Key::interface() is an Option)
Interfaces == {"main", "ui"}
NoInterface == "NoInterface"
Key(n, i) == [id |-> n, interface |-> i]
KeyLists ==
    UNION {{[n \in 1..len |-> Key(n, f[n])] : f \in [1..len -> Interfaces \cup {NoInterface}]} :
           len \in 0..MaxKeys}
TwoInterfaceKeys == <<Key(1, "main"), Key(2, "ui")>>
NoKeys == [i \in {} |-> [enc |-> "", key |-> 0]]

\* Base64(k.as_bytes()) and Base32(k.tor_key().as_bytes()) of the key k
Base64(k) == [enc |-> "base64", key |-> k.id]
Base32(k) == [enc |-> "base32", key |-> k.id]

\* filter_map: `let interface = k.interface().map(|(_, i)| i)?;`
AllKeys(keys) == keys
BoundKeys(keys) == SelectSeq(keys, LAMBDA k : k.interface # NoInterface)

\* collecting into a BTreeMap: a later pair replaces an earlier one with the
\* same interface id
LastFor(b, i) ==
    CHOOSE n \in DOMAIN b :
        b[n].interface = i /\ \A m \in DOMAIN b : m > n => b[m].interface # i
FirstFor(b, i) ==
    CHOOSE n \in DOMAIN b :
        b[n].interface = i /\ \A m \in DOMAIN b : m < n => b[m].interface # i
InterfacesOf(b) == {b[n].interface : n \in DOMAIN b}

\* unzip() feeds both maps pair by pair
NetworkKeysOf(keys) ==
    LET b == BoundKeys(keys)
    IN  [i \in InterfacesOf(b) |-> Base64(b[LastFor(b, i)])]
TorKeysOfFirst(keys) ==
    LET b == BoundKeys(keys)
    IN  [i \in InterfacesOf(b) |-> Base32(b[FirstFor(b, i)])]
TorKeysOf(keys) ==
    LET b == BoundKeys(keys)
    IN  [i \in InterfacesOf(b) |-> Base32(b[LastFor(b, i)])]

Absent == [gen |-> 0, part |-> "absent", timestamp |-> -1,
           network_keys |-> NoKeys, tor_keys |-> NoKeys, marketplace_url |-> "None"]
ArchiveOf(n, p) == [gen |-> n, part |-> p, timestamp |-> -1,
                    network_keys |-> NoKeys, tor_keys |-> NoKeys, marketplace_url |-> "None"]
BackupMetadata(n, p, ts, nk, tk, url) ==
    [gen |-> n, part |-> p, timestamp |-> ts,
     network_keys |-> nk, tor_keys |-> tk, marketplace_url |-> url]

\* Volumes of the manifest: volume id |-> readonly flag
BackupVolume == "BACKUP"
DeclaredVolumes == [v \in {"main", "cert"} |-> v = "cert"]
NoVolumes == [v \in {} |-> TRUE]
Insert(volumes, id, readonly) ==
    [v \in DOMAIN volumes \cup {id} |-> IF v = id THEN readonly ELSE volumes[v]]
ToReadonly(volumes) == [v \in DOMAIN volumes |-> TRUE]

\* let mut volumes = volumes.to_readonly();
\* volumes.insert(VolumeId::Backup, Volume::Backup { readonly: false });
CreateVolumesCloned(volumes) == Insert(volumes, BackupVolume, FALSE)
CreateVolumes(volumes) == Insert(ToReadonly(volumes), BackupVolume, FALSE)

\* let mut volumes = volumes.clone();
\* volumes.insert(VolumeId::Backup, Volume::Backup { readonly: true });
RestoreVolumes(volumes) == Insert(volumes, BackupVolume, TRUE)

(***************************************************************************)
(* Metadata envelope: IoFormat::Cbor.to_vec(&BackupMetadata { .. }) and    *)
(* IoFormat::Cbor.from_slice(..) over the derived Serialize, Deserialize   *)
(***************************************************************************)
Fields == {"timestamp", "network_keys", "tor_keys", "marketplace_url"}

\* the struct's fields as CBOR items: an instant and a Url are text, a
\* BTreeMap is a map, Option::None is null
WireType(m, f) ==
    CASE f = "timestamp" -> "text"
      [] f \in {"network_keys", "tor_keys"} -> "map"
      [] OTHER -> IF m[f] = "None" THEN "null" ELSE "text"
ExpectedTypes(f) ==
    CASE f = "timestamp" -> {"text"}
      [] f \in {"network_keys", "tor_keys"} -> {"map"}
      [] OTHER -> {"text", "null"}

\* #[serde(default)] on network_keys and tor_keys; a missing Option is None
HasDefaultAll(f) == TRUE
HasDefault(f) == f \in {"network_keys", "tor_keys", "marketplace_url"}
DefaultOf(f) ==
    CASE f = "timestamp" -> 0
      [] f \in {"network_keys", "tor_keys"} -> NoKeys
      [] OTHER -> "None"

\* a buffer: whether it breaks off early, which fields it holds, the CBOR
\* type of each and the bytes' meaning
ToVec(m) ==
    [truncated |-> FALSE, present |-> Fields,
     type |-> [f \in Fields |-> WireType(m, f)], val |-> m]

DecodeErrorKind == "Serialization"
NoMetadata ==
    [timestamp |-> 0, network_keys |-> NoKeys, tor_keys |-> NoKeys, marketplace_url |-> "None"]

FieldOk(buf, f) ==
    IF f \in buf.present THEN buf.type[f] \in ExpectedTypes(f) ELSE HasDefault(f)
FieldValue(buf, f) ==
    IF f \notin buf.present THEN DefaultOf(f)
    ELSE IF buf.type[f] = "null" THEN "None" ELSE buf.val[f]
FromSlice(buf) ==
    IF buf.truncated \/ \E f \in Fields : ~FieldOk(buf, f)
    THEN [kind |-> DecodeErrorKind, value |-> NoMetadata]
    ELSE [kind |-> "Ok", value |-> [f \in Fields |-> FieldValue(buf, f)]]

\* the values a create call can put into an envelope
Metadatas ==
    {[timestamp |-> t, network_keys |-> NetworkKeysOf(ks), tor_keys |-> TorKeysOf(ks),
      marketplace_url |-> u] : t \in 0..MaxClock, ks \in KeyLists, u \in Urls}
NoEnvelope ==
    [pc |-> "none", m |-> NoMetadata, buf |-> ToVec(NoMetadata), lacking |-> {},
     damage |-> "none", dec |-> [kind |-> "none", value |-> NoMetadata]]

EncodeMetadata ==
    /\ envelope.pc = "value"
    /\ envelope' = [envelope EXCEPT !.pc = "encoded", !.buf = ToVec(envelope.m)]

\* a record written without some of the fields (by another version of the
\* writer)
LackFields ==
    /\ envelope.pc = "encoded"
    /\ \E D \in SUBSET Fields \ {{}} :
         envelope' = [envelope EXCEPT !.pc = "changed", !.lacking = D,
                                      !.buf.present = Fields \ D]

\* a buffer cut short, or one field of which holds an item of another type
DamageBuffer ==
    /\ envelope.pc = "encoded"
    /\ \/ envelope' = [envelope EXCEPT !.pc = "changed", !.damage = "truncated",
                                        !.buf.truncated = TRUE]
       \/ \E f \in Fields :
             envelope' = [envelope EXCEPT !.pc = "changed", !.damage = f,
                                          !.buf.type[f] = "int"]

DecodeMetadata ==
    /\ envelope.pc \in {"encoded", "changed"}
    /\ envelope' = [envelope EXCEPT !.pc = "decoded", !.dec = FromSlice(envelope.buf)]

NoLocals == [network_keys |-> NoKeys, tor_keys |-> NoKeys, marketplace_url |-> "None", timestamp |-> -1, metadata |-> Absent, entry |-> "None"]
NoHistory == [pre |-> [p \in Paths |-> Absent], dbPre |-> "None", steps |-> <<>>,
              procOutcome |-> "none", procMsg |-> "", procCalls |-> 0,
              procSuccessAt |-> -1, archiveCommitAt |-> -1, stampAt |-> -1,
              metaFlushAt |-> -1, metaReads |-> 0, dbWrites |-> 0,
              reconfigCalls |-> 0, reconfigOutcome |-> "none",
              reconfigEntry |-> "None", procVolumes |-> NoVolumes, failedAt |-> "none", readUrl |-> "None", lastRead |-> "None"]

\* the history of a new call: only lastRead, the marketplace_url that the
\* last successful create read, outlives a call
NewHistory == [NoHistory EXCEPT !.lastRead = g.lastRead]
NoResult == [kind |-> "none", msg |-> "", timestamp |-> -1]
Ok(ts) == [kind |-> "Ok", msg |-> "", timestamp |-> ts]
Err(kind, msg) == [kind |-> kind, msg |-> msg, timestamp |-> -1]

Resting == {"idle", "done", "crashed"}

Step(name) == [g EXCEPT !.steps = Append(@, name)]

(***************************************************************************)
(* Durable write primitive (helpers::AtomicFile): the bytes go to a        *)
(* temporary file beside the target; save() syncs it and renames it onto   *)
(* the target; dropping the handle without save() discards it.             *)
(***************************************************************************)
AtomicFileNew(f, path) == [f EXCEPT ![TmpPath(path)] = ArchiveOf(0, "empty")]
AtomicFileSave(f, path) == [f EXCEPT ![path] = f[TmpPath(path)], ![TmpPath(path)] = Absent]
AtomicFileDrop(f, path) == [f EXCEPT ![TmpPath(path)] = Absent]

\* The file behind `&mut *outfile`: the AtomicFile's temporary, not `path`.
OutfilePathDirect(path) == path
OutfilePath(path) == TmpPath(path)

\* IoFormat::Cbor.from_slice on what was read from metadata.cbor
DecodeOk(content) == content.part = "full" /\ content.timestamp >= 0

(***************************************************************************)
(* BackupActions::create                                                   *)
(***************************************************************************)
CreateProcErrorKind == "Backup"

\* where create goes after the procedure's outcome o
AfterCreateProcedureIgnoring(o) == "c_keys"
AfterCreateProcedure(o) == IF o = "ok" THEN "c_keys" ELSE "done"

\* `let timestamp = Utc::now()` sits after the archive's save()
TimestampAtProcedureSuccess == g.procSuccessAt
TimestampInstant == clock

Finish(res) == bpc' = "done" /\ bresult' = res

\* after create_dir_all the first thing create does is to run the procedure
FirstCreateStepReadsDb == "c_db"
FirstCreateStep == "c_proc"

CreateBegin ==
    /\ bpc \in Resting
    /\ gen < MaxBackups
    /\ bop' = "create"
    /\ gen' = gen + 1
    /\ bl' = NoLocals
    /\ g' = [NewHistory EXCEPT !.pre = fs, !.dbPre = dbMarket, !.steps = <<"mkdir">>]
    /\ \/ bpc' = FirstCreateStep /\ bresult' = NoResult
       \/ Finish(Err("Filesystem", "create_dir_all"))
    /\ UNCHANGED <<fs, clock, dbMarket>>

CreateProcedure ==
    /\ bpc = "c_proc"
    /\ \E o \in ProcOutcomes, m \in ProcMsgs :
         /\ o = "procerr" \/ m = "exit 1"
         /\ g' = [Step("procedure") EXCEPT
                    !.procOutcome = o,
                    !.procMsg = IF o = "procerr" THEN m ELSE "",
                    !.procCalls = @ + 1,
                    !.procVolumes = CreateVolumes(DeclaredVolumes),
                    !.procSuccessAt = IF o = "ok" THEN clock ELSE -1]
         /\ bpc' = AfterCreateProcedure(o)
         /\ bresult' = CASE o = "ok" -> bresult
                         [] o = "procerr" -> Err(CreateProcErrorKind, m)
                         [] OTHER -> Err("Runtime", "")
    /\ UNCHANGED <<bop, fs, gen, clock, bl, dbMarket>>

\* `Key::for_package(..).await?`: where create goes after the export
AfterKeyExportIgnoring(ok) == "c_db"
AfterKeyExport(ok) == IF ok THEN "c_db" ELSE "done"

CreateExportKeys ==
    /\ bpc = "c_keys"
    /\ \E ok \in BOOLEAN :
         /\ g' = [Step("keys") EXCEPT !.failedAt = IF ok THEN @ ELSE "keys"]
         /\ bpc' = AfterKeyExport(ok)
         /\ bresult' = IF ok THEN bresult ELSE Err("Database", "for_package")
         /\ bl' = IF ok
                  THEN [bl EXCEPT !.network_keys = NetworkKeysOf(keystore),
                                  !.tor_keys = TorKeysOf(keystore)]
                  ELSE bl
    /\ UNCHANGED <<bop, fs, gen, clock, dbMarket>>

CreateReadMarketplace ==
    /\ bpc = "c_db"
    /\ \/ /\ bpc' = "c_open"
          /\ bl' = [bl EXCEPT !.marketplace_url = dbMarket]
          /\ g' = [Step("db_read") EXCEPT !.readUrl = dbMarket]
          /\ UNCHANGED bresult
       \/ /\ Finish(Err("Database", "marketplace_url"))
          /\ g' = [Step("db_read") EXCEPT !.failedAt = "db_read"]
          /\ UNCHANGED bl
    /\ UNCHANGED <<bop, fs, gen, clock, dbMarket>>

CreateOpenFiles ==
    /\ bpc = "c_open"
    /\ g' = Step("open")
    /\ \/ /\ bpc' = "c_copy"
          /\ fs' = AtomicFileNew(fs, ArchivePath)
          /\ UNCHANGED bresult
       \/ Finish(Err("Filesystem", "open")) /\ UNCHANGED fs
    /\ UNCHANGED <<bop, gen, clock, bl, dbMarket>>

CreateCopyBegin ==
    /\ bpc = "c_copy"
    /\ g' = Step("copy")
    /\ \/ /\ bpc' = "c_copy2"
          /\ fs' = [fs EXCEPT ![OutfilePath(ArchivePath)] = ArchiveOf(gen, "partial")]
          /\ UNCHANGED bresult
       \/ /\ Finish(Err("Filesystem", "cp"))
          /\ fs' = AtomicFileDrop(fs, ArchivePath)
    /\ UNCHANGED <<bop, gen, clock, bl, dbMarket>>

CreateCopyEnd ==
    /\ bpc = "c_copy2"
    /\ UNCHANGED g
    /\ \/ /\ bpc' = "c_save"
          /\ fs' = [fs EXCEPT ![OutfilePath(ArchivePath)] = ArchiveOf(gen, "full")]
          /\ UNCHANGED bresult
       \/ /\ Finish(Err("Filesystem", "cp"))
          /\ fs' = AtomicFileDrop(fs, ArchivePath)
    /\ UNCHANGED <<bop, gen, clock, bl, dbMarket>>

CreateSaveArchive ==
    /\ bpc = "c_save"
    /\ \/ /\ bpc' = "c_stamp"
          /\ fs' = AtomicFileSave(fs, ArchivePath)
          /\ g' = [Step("save_archive") EXCEPT !.archiveCommitAt = clock]
          /\ UNCHANGED bresult
       \/ /\ Finish(Err("Filesystem", "save"))
          /\ fs' = AtomicFileDrop(fs, ArchivePath)
          /\ UNCHANGED g
    /\ UNCHANGED <<bop, gen, clock, bl, dbMarket>>

CreateTimestamp ==
    /\ bpc = "c_stamp"
    /\ bl' = [bl EXCEPT !.timestamp = TimestampInstant]
    /\ g' = [Step("timestamp") EXCEPT !.stampAt = clock]
    /\ \/ /\ bpc' = "c_write"
          /\ fs' = AtomicFileNew(fs, MetadataPath)
          /\ UNCHANGED bresult
       \/ Finish(Err("Filesystem", "open")) /\ UNCHANGED fs
    /\ UNCHANGED <<bop, gen, clock, dbMarket>>

CreateWriteBegin ==
    /\ bpc = "c_write"
    /\ g' = Step("write_metadata")
    /\ \/ /\ bpc' = "c_write2"
          /\ fs' = [fs EXCEPT ![OutfilePath(MetadataPath)] =
                        BackupMetadata(gen, "partial", -1, NoKeys, NoKeys, "None")]
          /\ UNCHANGED bresult
       \/ /\ Finish(Err("Serialization", "to_vec"))
          /\ fs' = AtomicFileDrop(fs, MetadataPath)
       \/ /\ Finish(Err("Filesystem", "write_all"))
          /\ fs' = AtomicFileDrop(fs, MetadataPath)
    /\ UNCHANGED <<bop, gen, clock, bl, dbMarket>>

CreateWriteEnd ==
    /\ bpc = "c_write2"
    /\ UNCHANGED g
    /\ \/ /\ bpc' = "c_msave"
          /\ fs' = [fs EXCEPT ![OutfilePath(MetadataPath)] =
                        BackupMetadata(gen, "full", bl.timestamp, bl.network_keys,
                                       bl.tor_keys, bl.marketplace_url)]
          /\ UNCHANGED bresult
       \/ /\ Finish(Err("Filesystem", "write_all"))
          /\ fs' = AtomicFileDrop(fs, MetadataPath)
    /\ UNCHANGED <<bop, gen, clock, bl, dbMarket>>

CreateSaveMetadata ==
    /\ bpc = "c_msave"
    /\ \/ /\ Finish(Ok(bl.timestamp))
          /\ fs' = AtomicFileSave(fs, MetadataPath)
          /\ g' = [Step("save_metadata") EXCEPT !.metaFlushAt = clock,
                                                !.lastRead = g.readUrl]
       \/ /\ Finish(Err("Filesystem", "save"))
          /\ fs' = AtomicFileDrop(fs, MetadataPath)
          /\ UNCHANGED g
    /\ UNCHANGED <<bop, gen, clock, bl, dbMarket>>

(***************************************************************************)
(* BackupActions::restore                                                  *)
(***************************************************************************)
RestoreProcErrorKindSwapped == "Backup"
RestoreProcErrorKind == "Restore"

\* tokio::fs::read(&metadata_path): a missing file is an error, not a default
MetadataReadableOrDefault(content) == TRUE
MetadataReadable(content) == content.part # "absent"

RestoreBegin ==
    /\ bpc \in Resting
    /\ bop' = "restore"
    /\ bpc' = "r_proc"
    /\ bl' = NoLocals
    /\ g' = [NewHistory EXCEPT !.pre = fs, !.dbPre = dbMarket, !.steps = <<"volumes">>]
    /\ bresult' = NoResult
    /\ UNCHANGED <<fs, gen, clock, dbMarket>>

RestoreProcedure ==
    /\ bpc = "r_proc"
    /\ \E o \in ProcOutcomes, m \in ProcMsgs :
         /\ o = "procerr" \/ m = "exit 1"
         /\ g' = [Step("procedure") EXCEPT
                    !.procOutcome = o,
                    !.procMsg = IF o = "procerr" THEN m ELSE "",
                    !.procCalls = @ + 1,
                    !.procVolumes = RestoreVolumes(DeclaredVolumes),
                    !.procSuccessAt = IF o = "ok" THEN clock ELSE -1]
         /\ bpc' = IF o = "ok" THEN "r_meta" ELSE "done"
         /\ bresult' = CASE o = "ok" -> bresult
                         [] o = "procerr" -> Err(RestoreProcErrorKind, m)
                         [] OTHER -> Err("Runtime", "")
    /\ UNCHANGED <<bop, fs, gen, clock, bl, dbMarket>>

RestoreReadMetadata ==
    /\ bpc = "r_meta"
    /\ g' = [Step("read_metadata") EXCEPT !.metaReads = @ + 1]
    /\ \/ /\ MetadataReadable(fs[MetadataPath])
          /\ DecodeOk(fs[MetadataPath])
          /\ bpc' = "r_put"
          /\ bl' = [bl EXCEPT !.metadata = fs[MetadataPath]]
          /\ UNCHANGED bresult
       \/ /\ MetadataReadable(fs[MetadataPath])
          /\ ~DecodeOk(fs[MetadataPath])
          /\ Finish(Err("Serialization", "from_slice"))
          /\ UNCHANGED bl
       \/ /\ ~MetadataReadable(fs[MetadataPath])
          /\ Finish(Err("Filesystem", MetadataPath))
          /\ UNCHANGED bl
    /\ UNCHANGED <<bop, fs, gen, clock, dbMarket>>

RestoreWriteMarketplace ==
    /\ bpc = "r_put"
    /\ \/ /\ bpc' = "r_entry"
          /\ dbMarket' = bl.metadata.marketplace_url
          /\ g' = [Step("db_write") EXCEPT !.dbWrites = @ + 1]
          /\ UNCHANGED bresult
       \/ /\ Finish(Err("Database", "marketplace_url"))
          /\ g' = Step("db_write")
          /\ UNCHANGED dbMarket
    /\ UNCHANGED <<bop, fs, gen, clock, bl>>

\* the installed record is fetched again after the put, so the record that
\* reconfiguration gets carries the restored marketplace_url
EntryBeforeWrite == g.dbPre
EntryForReconfigure == dbMarket

RestoreReadEntry ==
    /\ bpc = "r_entry"
    /\ g' = Step("db_read")
    /\ \/ /\ bpc' = "r_reconf"
          /\ bl' = [bl EXCEPT !.entry = EntryForReconfigure]
          /\ UNCHANGED bresult
       \/ Finish(Err("Database", "installed")) /\ UNCHANGED bl
    /\ UNCHANGED <<bop, fs, gen, clock, dbMarket>>

ReconfigOutcomes == {"ok", "err"}

\* reconfigure_dependents_with_live_pointers(..).await?; Ok(())
ReconfigureResultIgnoring(o) == Ok(-1)
ReconfigureResult(o) == IF o = "ok" THEN Ok(-1) ELSE Err("Dependents", "reconfigure")

\* nothing is undone when reconfiguration fails: the ? returns at once
MarketplaceRolledBack(o) == IF o = "err" THEN g.dbPre ELSE dbMarket
MarketplaceAfterReconfigure(o) == dbMarket

RestoreReconfigure ==
    /\ bpc = "r_reconf"
    /\ \/ \E o \in ReconfigOutcomes :
             /\ Finish(ReconfigureResult(o))
             /\ g' = [Step("reconfigure") EXCEPT !.reconfigCalls = @ + 1,
                                                 !.reconfigOutcome = o,
                                                 !.reconfigEntry = bl.entry]
             /\ dbMarket' = MarketplaceAfterReconfigure(o)
       \/ /\ Finish(Err("Database", "ConfigReceipts"))
          /\ g' = Step("receipts")
          /\ UNCHANGED dbMarket
    /\ UNCHANGED <<bop, fs, gen, clock, bl>>

(***************************************************************************)
(* Environment of the orchestrator                                         *)
(***************************************************************************)
\* the process dies in the middle of a call; files stay as they are
Crash ==
    /\ bpc \notin Resting
    /\ bpc' = "crashed"
    /\ bresult' = NoResult
    /\ UNCHANGED <<bop, fs, gen, clock, bl, g, dbMarket>>

Tick ==
    /\ clock < MaxClock
    /\ clock' = clock + 1
    /\ UNCHANGED <<bpc, bop, fs, gen, bl, g, bresult, dbMarket>>

\* the package is (re)installed from another marketplace between calls
SetMarketplace ==
    /\ bpc \in Resting
    /\ \E u \in Urls : u # dbMarket /\ dbMarket' = u
    /\ bpc' = "idle"
    /\ bop' = "none"
    /\ bl' = NoLocals
    /\ g' = NewHistory
    /\ bresult' = NoResult
    /\ UNCHANGED <<fs, gen, clock>>

(***************************************************************************)
(* Notification ledger                                                     *)
(***************************************************************************)
\* database handles (ctx.db.handle()) of the callers of notify
Handles == {"h1", "h2"}
\* (package_id, level, title)
Keys == {<<"None", "warning", "disk-low">>, <<"acme-crm", "error", "backup failed">>}
\* Option::None of an integer argument (before, limit, debounce_interval)
None == -1
Intervals == {None} \cup (0..MaxInterval)
\* cache.get(&k) finds nothing
NoEntry == -1
DefaultLimit == 40

\* Utc::now().timestamp(): whole seconds of a clock that has finer ticks
TicksPerSec == 2
Timestamp(t) == t \div TicksPerSec

\* the match of should_notify: TRUE when the call is admitted
ShouldNotifyStrict(last, interval, ts) ==
    IF last = NoEntry THEN TRUE
    ELSE IF interval = None THEN TRUE
    ELSE IF last + interval >= ts THEN FALSE ELSE TRUE
ShouldNotify(last, interval, ts) ==
    IF last = NoEntry THEN TRUE
    ELSE IF interval = None THEN TRUE
    ELSE IF last + interval > ts THEN FALSE ELSE TRUE

\* ... WHERE id < $1 ORDER BY id DESC LIMIT $2
QualifyingInclusive(rs, before) == {r \in rs : before = None \/ r.id <= before}
Qualifying(rs, before) == {r \in rs : before = None \/ r.id < before}
RECURSIVE TakeDesc(_, _)
TakeDesc(S, n) ==
    IF n = 0 \/ S = {} THEN <<>>
    ELSE LET m == CHOOSE r \in S : \A q \in S : q.id <= r.id
         IN  <<m.id>> \o TakeDesc(S \ {m}, n - 1)
EffectiveLimit(limit) == IF limit = None THEN DefaultLimit ELSE limit
ListQuery(rs, before, limit) == TakeDesc(Qualifying(rs, before), EffectiveLimit(limit))

\* the counter after a successful list: put(0) only in the `None` arm
UnreadAfterListMinusReturned(before, count, returned) ==
    IF before = None
    THEN (IF count > Len(returned) THEN count - Len(returned) ELSE 0)
    ELSE count
UnreadAfterList(before, count, returned) == IF before = None THEN 0 ELSE count

AllIdle == \A p \in Handles : npc[p] = "idle"
NoNLocals == [key |-> <<"None", "warning", "disk-low">>, interval |-> None, count |-> 0]

\* self.cache.lock().await: the guard lives as long as should_notify runs
CacheLockFree == \A q \in Handles : npc[q] # "n_should"
\* the write lock on unread_notification_count: taken by get_mut, given
\* back when the call that took it returns
CountLockFreeFor(p) == \A q \in Handles \ {p} : npc[q] \notin {"n_insert", "n_save"}
NoEvent == [op |-> "none"]
NoAdmit == [at |-> NoEntry, done |-> FALSE]

\* notify is called and should_notify gets the lock of the cache
NotifyCall(p, k, interval) ==
    /\ npc[p] = "idle"
    /\ CacheLockFree
    /\ npc' = [npc EXCEPT ![p] = "n_should"]
    /\ nloc' = [nloc EXCEPT ![p] = [key |-> k, interval |-> interval, count |-> 0]]
    /\ UNCHANGED <<rows, nextId, unread, cache, now, ins, admitAt, ev>>

\* the match of should_notify under the guard, up to its return
NotifyShouldNotify(p) ==
    /\ npc[p] = "n_should"
    /\ LET k == nloc[p].key
           interval == nloc[p].interval
           admitted == ShouldNotify(cache[k], interval, Timestamp(now))
       IN
       /\ ev' = [op |-> "should_notify", handle |-> p, key |-> k,
                 interval |-> interval, at |-> now, admitted |-> admitted,
                 result |-> IF admitted THEN "pending" ELSE "Ok",
                 cacheBefore |-> cache, prevAdmitAt |-> admitAt[k].at,
                 prevDone |-> admitAt[k].done,
                 rowsBefore |-> rows, unreadBefore |-> unread]
       /\ IF admitted
          THEN /\ cache' = [cache EXCEPT ![k] = Timestamp(now)]
               /\ admitAt' = [admitAt EXCEPT ![k] = [at |-> now, done |-> FALSE]]
               /\ npc' = [npc EXCEPT ![p] = "n_get"]
               /\ nloc' = [nloc EXCEPT ![p].interval = None]
          ELSE /\ npc' = [npc EXCEPT ![p] = "idle"]
               /\ nloc' = [nloc EXCEPT ![p] = NoNLocals]
               /\ UNCHANGED <<cache, admitAt>>
    /\ UNCHANGED <<rows, nextId, unread, now, ins>>

\* unread_notification_count().get_mut(db)
NotifyGetMut(p) ==
    /\ npc[p] = "n_get"
    /\ CountLockFreeFor(p)
    /\ \/ /\ nloc' = [nloc EXCEPT ![p].count = unread]
          /\ npc' = [npc EXCEPT ![p] = "n_insert"]
          /\ ev' = [op |-> "get_mut", handle |-> p, key |-> nloc[p].key, result |-> "pending"]
       \/ /\ nloc' = [nloc EXCEPT ![p] = NoNLocals]
          /\ npc' = [npc EXCEPT ![p] = "idle"]
          /\ ev' = [op |-> "get_mut", handle |-> p, key |-> nloc[p].key, result |-> "Database"]
    /\ UNCHANGED <<rows, nextId, unread, cache, now, ins, admitAt>>

\* `sqlx::query!("INSERT ..").execute(&self.sqlite).await?`: the error of
\* the INSERT becomes the call's error, and where notify goes after it
InsertErrorKind == "Database"
AfterInsertIgnoring(ok) == "n_save"
AfterInsert(ok) == IF ok THEN "n_save" ELSE "idle"

\* serde_json::to_string, then INSERT INTO notifications
NotifyInsert(p) ==
    /\ npc[p] = "n_insert"
    /\ nextId <= MaxRows
    /\ \/ /\ rows' = rows \cup {[id |-> nextId, key |-> nloc[p].key]}
          /\ nextId' = nextId + 1
          /\ ins' = ins + 1
          /\ npc' = [npc EXCEPT ![p] = AfterInsert(TRUE)]
          /\ ev' = [op |-> "insert", handle |-> p, key |-> nloc[p].key, failed |-> "none",
                    result |-> "pending", rowsBefore |-> rows, unreadBefore |-> unread]
          /\ UNCHANGED nloc
       \/ /\ npc' = [npc EXCEPT ![p] = "idle"]
          /\ nloc' = [nloc EXCEPT ![p] = NoNLocals]
          /\ ev' = [op |-> "insert", handle |-> p, key |-> nloc[p].key, failed |-> "to_string",
                    result |-> "Serialization", rowsBefore |-> rows, unreadBefore |-> unread]
          /\ UNCHANGED <<rows, nextId, ins>>
       \/ /\ npc' = [npc EXCEPT ![p] = AfterInsert(FALSE)]
          /\ nloc' = IF AfterInsert(FALSE) = "idle"
                     THEN [nloc EXCEPT ![p] = NoNLocals] ELSE nloc
          /\ ev' = [op |-> "insert", handle |-> p, key |-> nloc[p].key, failed |-> "insert",
                    result |-> InsertErrorKind, rowsBefore |-> rows, unreadBefore |-> unread]
          /\ UNCHANGED <<rows, nextId, ins>>
    /\ UNCHANGED <<unread, cache, now, admitAt>>

\* *count += 1; count.save(db)
NotifySave(p) ==
    /\ npc[p] = "n_save"
    /\ npc' = [npc EXCEPT ![p] = "idle"]
    /\ nloc' = [nloc EXCEPT ![p] = NoNLocals]
    /\ \/ /\ unread' = nloc[p].count + 1
          /\ admitAt' = [admitAt EXCEPT ![nloc[p].key].done = TRUE]
          /\ ev' = [op |-> "save", handle |-> p, key |-> nloc[p].key, result |-> "Ok"]
       \/ /\ UNCHANGED <<unread, admitAt>>
          /\ ev' = [op |-> "save", handle |-> p, key |-> nloc[p].key, result |-> "Database"]
    /\ UNCHANGED <<rows, nextId, cache, now, ins>>

\* the closure of list's map: `r.level.parse::<NotificationLevel>()` and
\* `v.parse::<serde_json::Value>()` return their error, while
\* `r.package_id.and_then(|p| p.parse().ok())` turns an error into None
StoredFields == {"level", "data", "package_id"}
FieldParseFails(field) == field \in {"level", "data"}
RowParseFails(id) == \E m \in malformed : m.id = id /\ FieldParseFails(m.field)
\* collect::<Result<Vec<Notification>, Error>>()?
CollectFails(fetched) == \E i \in DOMAIN fetched : RowParseFails(fetched[i])

\* lock (in the `None` arm), SELECT, the rows' parse, put(0) (`None` arm)
List(before, limit) ==
    /\ before = None => CountLockFreeFor("list")
    /\ LET fetched == ListQuery(rows, before, limit) IN
       \/ /\ ~CollectFails(fetched)
          /\ unread' = UnreadAfterList(before, unread, fetched)
          /\ ins' = IF before = None THEN 0 ELSE ins
          /\ ev' = [op |-> "list", before |-> before, limit |-> limit, ok |-> TRUE,
                    result |-> "Ok", returned |-> fetched, read |-> fetched,
                    rowsBefore |-> rows, unreadBefore |-> unread]
       \/ /\ CollectFails(fetched)
          /\ UNCHANGED <<unread, ins>>
          /\ ev' = [op |-> "list", before |-> before, limit |-> limit, ok |-> FALSE,
                    result |-> "ParseDbField", returned |-> <<>>, read |-> fetched,
                    rowsBefore |-> rows, unreadBefore |-> unread]
       \/ /\ UNCHANGED <<unread, ins>>
          /\ \E rd \in (IF before = None /\ ~CollectFails(fetched)
                         THEN {<<>>, fetched} ELSE {<<>>}) :
                ev' = [op |-> "list", before |-> before, limit |-> limit, ok |-> FALSE,
                       result |-> "Database", returned |-> <<>>, read |-> rd,
                       rowsBefore |-> rows, unreadBefore |-> unread]
    /\ UNCHANGED <<npc, nloc, rows, nextId, cache, now, admitAt>>

\* DELETE FROM notifications WHERE id = $1
DeleteMatches(r, id) == r.id = id
\* DELETE FROM notifications WHERE id < $1
DeleteBeforeMatchesInclusive(r, before) == r.id <= before
DeleteBeforeMatches(r, before) == r.id < before

Delete(id) ==
    /\ \/ /\ rows' = {r \in rows : ~DeleteMatches(r, id)}
          /\ ev' = [op |-> "delete", id |-> id, result |-> "Ok",
                    rowsBefore |-> rows, unreadBefore |-> unread,
                    cacheBefore |-> cache]
       \/ /\ UNCHANGED rows
          /\ ev' = [op |-> "delete", id |-> id, result |-> "Database",
                    rowsBefore |-> rows, unreadBefore |-> unread,
                    cacheBefore |-> cache]
    /\ UNCHANGED <<npc, nloc, nextId, unread, cache, now, ins, admitAt>>

DeleteBefore(before) ==
    /\ \/ /\ rows' = {r \in rows : ~DeleteBeforeMatches(r, before)}
          /\ ev' = [op |-> "delete_before", id |-> before, result |-> "Ok",
                    rowsBefore |-> rows, unreadBefore |-> unread,
                    cacheBefore |-> cache]
       \/ /\ UNCHANGED rows
          /\ ev' = [op |-> "delete_before", id |-> before, result |-> "Database",
                    rowsBefore |-> rows, unreadBefore |-> unread,
                    cacheBefore |-> cache]
    /\ UNCHANGED <<npc, nloc, nextId, unread, cache, now, ins, admitAt>>

NTick ==
    /\ now < MaxNow
    /\ now' = now + 1
    /\ UNCHANGED <<npc, nloc, rows, nextId, unread, cache, ins, admitAt, ev>>

\* the server restarts: NotificationManager::new makes an empty cache, the
\* calls that were running are gone, the table and the counter stay
LoseCache ==
    /\ cache' = [k \in Keys |-> NoEntry]
    /\ npc' = [p \in Handles |-> "idle"]
    /\ nloc' = [p \in Handles |-> NoNLocals]
    /\ admitAt' = [k \in Keys |-> NoAdmit]
    /\ restarted' = IF AllIdle /\ unread = ins THEN "clean" ELSE "unclean"
    /\ ev' = [op |-> "restart"]
    /\ UNCHANGED <<rows, nextId, unread, now, ins>>

\* a stored row whose field was not written by this version of notify: the
\* table is a file of the secret store that outlives the program
Corrupt(id, field) ==
    /\ \E r \in rows : r.id = id
    /\ \A m \in malformed : m.id # id
    /\ malformed' = malformed \cup {[id |-> id, field |-> field]}

\* the step just taken has been seen by its caller
Observed == ev = NoEvent
Observe ==
    /\ ev # NoEvent
    /\ ev' = NoEvent
    /\ UNCHANGED <<npc, nloc, rows, nextId, unread, cache, now, ins, admitAt>>

(***************************************************************************)
(* reset_password                                                          *)
(***************************************************************************)
Passwords == {"pw1", "pw2", "pw3"}
NoPassword == ""
\* argon2::hash_encoded and argon2::verify_encoded
HashEncoded(pw) == <<"argon2", pw>>
VerifyEncoded(hash, pw) == hash = HashEncoded(pw)

InitialAccount ==
    [pc |-> "idle", old |-> NoPassword, new |-> NoPassword, result |-> "none",
     account |-> HashEncoded("pw1"), store |-> HashEncoded("pw1"),
     db |-> HashEncoded("pw1"),
     wasAccount |-> HashEncoded("pw1"), wasStore |-> HashEncoded("pw1"),
     wasDb |-> HashEncoded("pw1")]

\* `old_password.unwrap_or_default().decrypt(&ctx)?`, the same for the new
\* password, then ctx.account.write()
ResetPasswordCall(old, new) ==
    /\ auth.pc = "idle"
    /\ \/ auth' = [auth EXCEPT !.pc = "verify", !.old = old, !.new = new,
                                !.result = "pending",
                                !.wasAccount = auth.account,
                                !.wasStore = auth.store, !.wasDb = auth.db]
       \/ auth' = [auth EXCEPT !.old = NoPassword, !.new = NoPassword,
                                !.result = "Error",
                                !.wasAccount = auth.account,
                                !.wasStore = auth.store, !.wasDb = auth.db]

\* where reset_password goes after argon2::verify_encoded
AfterVerifyIgnoring(ok) == "set"
AfterVerify(ok) == IF ok THEN "set" ELSE "idle"

\* `if !argon2::verify_encoded(&account.password, old_password.as_bytes())`
ResetVerify ==
    /\ auth.pc = "verify"
    /\ LET next == AfterVerify(VerifyEncoded(auth.account, auth.old)) IN
       auth' = [auth EXCEPT !.pc = next,
                            !.result = IF next = "idle" THEN "IncorrectPassword"
                                       ELSE "pending"]

\* account.set_password(&new_password)?
ResetSetPassword ==
    /\ auth.pc = "set"
    /\ \/ auth' = [auth EXCEPT !.pc = "save", !.account = HashEncoded(auth.new)]
       \/ auth' = [auth EXCEPT !.pc = "idle", !.result = "Error"]

\* account.save(&ctx.secret_store).await?
ResetSave ==
    /\ auth.pc = "save"
    /\ \/ auth' = [auth EXCEPT !.pc = "put", !.store = auth.account]
       \/ auth' = [auth EXCEPT !.pc = "idle", !.result = "Error"]

\* password_hash().put(&mut ctx.db.handle(), &account.password).await?
ResetPut ==
    /\ auth.pc = "put"
    /\ \/ auth' = [auth EXCEPT !.pc = "idle", !.db = auth.account, !.result = "Ok"]
       \/ auth' = [auth EXCEPT !.pc = "idle", !.result = "Error"]

(***************************************************************************)
(* ensure_trailing_slashes                                                 *)
(***************************************************************************)
MaxUrlLen == 3
\* a character that `.` matches, the slash, and the one `.` does not match
UrlChars == {"a", "/", "\n"}
RECURSIVE StringsOfLen(_)
StringsOfLen(n) ==
    IF n = 0 THEN {<<>>}
    ELSE {u \o <<c>> : u \in StringsOfLen(n - 1), c \in UrlChars}
UrlTexts == UNION {StringsOfLen(n) : n \in 0..MaxUrlLen}

\* `.*/$` tried from position i: `.*` takes url[i..j-1] with no line feed,
\* `/` takes url[j], and `$` holds only at the end of the text
DotStarSlashEnd(url, i) ==
    \E j \in i..Len(url) :
        /\ \A k \in i..(j - 1) : url[k] # "\n"
        /\ url[j] = "/"
        /\ j = Len(url)
\* the same pattern tried from the start of the text only
RegIsMatchFromStart(url) == Len(url) >= 1 /\ DotStarSlashEnd(url, 1)
\* REG.is_match(url): the pattern is searched for from every position
RegIsMatch(url) == \E i \in 1..Len(url) : DotStarSlashEnd(url, i)

ensure_trailing_slashes(url) ==
    IF RegIsMatch(url) THEN url ELSE url \o <<"/">>

NoSlash == [stage |-> "none", url |-> <<>>, once |-> <<>>, twice |-> <<>>]
\* ensure_trailing_slashes(url)
SlashOnce ==
    /\ slash.stage = "input"
    /\ slash' = [slash EXCEPT !.stage = "once", !.once = ensure_trailing_slashes(slash.url)]
\* ensure_trailing_slashes of the result
SlashTwice ==
    /\ slash.stage = "once"
    /\ slash' = [slash EXCEPT !.stage = "twice",
                              !.twice = ensure_trailing_slashes(slash.once)]

NoAuthSlash == auth = InitialAccount /\ slash = NoSlash

(***************************************************************************)
(* Specifications                                                          *)
(***************************************************************************)
BackupIdle ==
    /\ bpc = "idle"
    /\ bop = "none"
    /\ fs = [p \in Paths |-> Absent]
    /\ gen = 0
    /\ clock = 0
    /\ bl = NoLocals
    /\ g = NoHistory
    /\ bresult = NoResult

\* NotificationManager::new: an empty cache; an empty ledger
NotifyInit ==
    /\ npc = [p \in Handles |-> "idle"]
    /\ nloc = [p \in Handles |-> NoNLocals]
    /\ rows = {}
    /\ nextId = 1
    /\ unread = 0
    /\ cache = [k \in Keys |-> NoEntry]
    /\ now = 0
    /\ ins = 0
    /\ admitAt = [k \in Keys |-> NoAdmit]
    /\ ev = NoEvent

BackupInit ==
    /\ BackupIdle /\ dbMarket \in Urls /\ NotifyInit
    /\ keystore = TwoInterfaceKeys /\ envelope = NoEnvelope /\ restarted = "no" /\ malformed = {} /\ NoAuthSlash

BackupNext ==
    \/ CreateBegin /\ UNCHANGED <<nvars, svars>>
    \/ CreateProcedure /\ UNCHANGED <<nvars, svars>>
    \/ CreateExportKeys /\ UNCHANGED <<nvars, svars>>
    \/ CreateReadMarketplace /\ UNCHANGED <<nvars, svars>>
    \/ CreateOpenFiles /\ UNCHANGED <<nvars, svars>>
    \/ CreateCopyBegin /\ UNCHANGED <<nvars, svars>>
    \/ CreateCopyEnd /\ UNCHANGED <<nvars, svars>>
    \/ CreateSaveArchive /\ UNCHANGED <<nvars, svars>>
    \/ CreateTimestamp /\ UNCHANGED <<nvars, svars>>
    \/ CreateWriteBegin /\ UNCHANGED <<nvars, svars>>
    \/ CreateWriteEnd /\ UNCHANGED <<nvars, svars>>
    \/ CreateSaveMetadata /\ UNCHANGED <<nvars, svars>>
    \/ RestoreBegin /\ UNCHANGED <<nvars, svars>>
    \/ RestoreProcedure /\ UNCHANGED <<nvars, svars>>
    \/ RestoreReadMetadata /\ UNCHANGED <<nvars, svars>>
    \/ RestoreWriteMarketplace /\ UNCHANGED <<nvars, svars>>
    \/ RestoreReadEntry /\ UNCHANGED <<nvars, svars>>
    \/ RestoreReconfigure /\ UNCHANGED <<nvars, svars>>
    \/ Crash /\ UNCHANGED <<nvars, svars>>
    \/ Tick /\ UNCHANGED <<nvars, svars>>
    \/ SetMarketplace /\ UNCHANGED <<nvars, svars>>

\* one caller at a time drives create and restore of the package
SpecBackup == BackupInit /\ [][BackupNext]_vars

LedgerInit ==
    /\ NotifyInit /\ BackupIdle /\ dbMarket = "None"
    /\ keystore = <<>> /\ envelope = NoEnvelope /\ restarted = "no" /\ malformed = {} /\ NoAuthSlash

\* the ledger's operations run one after the other
LedgerNext ==
    \/ \E k \in Keys, i \in Intervals :
          Observed /\ AllIdle /\ NotifyCall("h1", k, i) /\ UNCHANGED <<bvars, svars>>
    \/ \E p \in Handles : Observed /\ NotifyShouldNotify(p) /\ UNCHANGED <<bvars, svars>>
    \/ \E p \in Handles : Observed /\ NotifyGetMut(p) /\ UNCHANGED <<bvars, svars>>
    \/ \E p \in Handles : Observed /\ NotifyInsert(p) /\ UNCHANGED <<bvars, svars>>
    \/ \E p \in Handles : Observed /\ NotifySave(p) /\ UNCHANGED <<bvars, svars>>
    \/ \E b \in {None} \cup (1..MaxRows + 1), l \in {None} \cup (0..MaxLimit) :
          Observed /\ AllIdle /\ List(b, l) /\ UNCHANGED <<bvars, svars>>
    \/ \E id \in 1..MaxRows : Observed /\ AllIdle /\ Delete(id) /\ UNCHANGED <<bvars, svars>>
    \/ \E id \in 1..MaxRows + 1 : Observed /\ AllIdle /\ DeleteBefore(id) /\ UNCHANGED <<bvars, svars>>
    \/ Observed /\ NTick /\ UNCHANGED <<bvars, svars>>
    \/ Observe /\ UNCHANGED <<bvars, svars>>

SpecLedger == LedgerInit /\ [][LedgerNext]_vars

\* create calls over every content of the secret store
KeysInit ==
    /\ BackupIdle /\ dbMarket = "https://a/" /\ NotifyInit
    /\ keystore \in KeyLists /\ envelope = NoEnvelope /\ restarted = "no" /\ malformed = {} /\ NoAuthSlash

KeysNext ==
    \/ CreateBegin /\ UNCHANGED <<nvars, svars>>
    \/ CreateProcedure /\ UNCHANGED <<nvars, svars>>
    \/ CreateExportKeys /\ UNCHANGED <<nvars, svars>>
    \/ CreateReadMarketplace /\ UNCHANGED <<nvars, svars>>
    \/ CreateOpenFiles /\ UNCHANGED <<nvars, svars>>
    \/ CreateCopyBegin /\ UNCHANGED <<nvars, svars>>
    \/ CreateCopyEnd /\ UNCHANGED <<nvars, svars>>
    \/ CreateSaveArchive /\ UNCHANGED <<nvars, svars>>
    \/ CreateTimestamp /\ UNCHANGED <<nvars, svars>>
    \/ CreateWriteBegin /\ UNCHANGED <<nvars, svars>>
    \/ CreateWriteEnd /\ UNCHANGED <<nvars, svars>>
    \/ CreateSaveMetadata /\ UNCHANGED <<nvars, svars>>

SpecKeys == KeysInit /\ [][KeysNext]_vars

\* notify calls on both handles at once, all with the same debounce
\* interval, and list(None, None) in between
ConcurrentNext ==
    \/ \E p \in Handles, k \in Keys :
          Observed /\ NotifyCall(p, k, MaxInterval) /\ UNCHANGED <<bvars, svars>>
    \/ \E p \in Handles : Observed /\ NotifyShouldNotify(p) /\ UNCHANGED <<bvars, svars>>
    \/ \E p \in Handles : Observed /\ NotifyGetMut(p) /\ UNCHANGED <<bvars, svars>>
    \/ \E p \in Handles : Observed /\ NotifyInsert(p) /\ UNCHANGED <<bvars, svars>>
    \/ \E p \in Handles : Observed /\ NotifySave(p) /\ UNCHANGED <<bvars, svars>>
    \/ Observed /\ List(None, None) /\ UNCHANGED <<bvars, svars>>
    \/ Observed /\ NTick /\ UNCHANGED <<bvars, svars>>
    \/ Observe /\ UNCHANGED <<bvars, svars>>

SpecConcurrent == LedgerInit /\ [][ConcurrentNext]_vars

\* the ledger's operations one after the other, and restarts of the server
RestartNext ==
    \/ \E k \in Keys :
          Observed /\ AllIdle /\ NotifyCall("h1", k, MaxInterval)
          /\ UNCHANGED <<bvars, svars>>
    \/ \E p \in Handles : Observed /\ NotifyShouldNotify(p) /\ UNCHANGED <<bvars, svars>>
    \/ \E p \in Handles : Observed /\ NotifyGetMut(p) /\ UNCHANGED <<bvars, svars>>
    \/ \E p \in Handles : Observed /\ NotifyInsert(p) /\ UNCHANGED <<bvars, svars>>
    \/ \E p \in Handles : Observed /\ NotifySave(p) /\ UNCHANGED <<bvars, svars>>
    \/ Observed /\ AllIdle /\ List(None, None) /\ UNCHANGED <<bvars, svars>>
    \/ Observed /\ NTick /\ UNCHANGED <<bvars, svars>>
    \/ Observed /\ LoseCache /\ UNCHANGED <<bvars, keystore, envelope, malformed, auth, slash>>
    \/ Observe /\ UNCHANGED <<bvars, svars>>

SpecRestart == LedgerInit /\ [][RestartNext]_vars

\* notify and list over a table some of whose rows have a malformed field
StoredNext ==
    \/ \E k \in Keys :
          Observed /\ AllIdle /\ NotifyCall("h1", k, None)
          /\ UNCHANGED <<bvars, svars>>
    \/ \E p \in Handles : Observed /\ NotifyShouldNotify(p) /\ UNCHANGED <<bvars, svars>>
    \/ \E p \in Handles : Observed /\ NotifyGetMut(p) /\ UNCHANGED <<bvars, svars>>
    \/ \E p \in Handles : Observed /\ NotifyInsert(p) /\ UNCHANGED <<bvars, svars>>
    \/ \E p \in Handles : Observed /\ NotifySave(p) /\ UNCHANGED <<bvars, svars>>
    \/ \E id \in 1..MaxRows, f \in StoredFields :
          Observed /\ AllIdle /\ Corrupt(id, f)
          /\ UNCHANGED <<bvars, nvars, keystore, envelope, restarted, auth, slash>>
    \/ \E b \in {None} \cup (2..(MaxRows + 1)), l \in {None} \cup (1..MaxLimit) :
          Observed /\ AllIdle /\ List(b, l) /\ UNCHANGED <<bvars, svars>>
    \/ Observe /\ UNCHANGED <<bvars, svars>>

SpecStored == LedgerInit /\ [][StoredNext]_vars

\* reset_password calls one after the other
AuthInit ==
    /\ BackupIdle /\ dbMarket = "None" /\ NotifyInit /\ keystore = <<>>
    /\ envelope = NoEnvelope /\ restarted = "no" /\ malformed = {}
    /\ auth = InitialAccount /\ slash = NoSlash

AuthNext ==
    \/ \E old \in Passwords, new \in Passwords :
          ResetPasswordCall(old, new)
          /\ UNCHANGED <<bvars, nvars, keystore, envelope, restarted, malformed, slash>>
    \/ ResetVerify
          /\ UNCHANGED <<bvars, nvars, keystore, envelope, restarted, malformed, slash>>
    \/ ResetSetPassword
          /\ UNCHANGED <<bvars, nvars, keystore, envelope, restarted, malformed, slash>>
    \/ ResetSave
          /\ UNCHANGED <<bvars, nvars, keystore, envelope, restarted, malformed, slash>>
    \/ ResetPut
          /\ UNCHANGED <<bvars, nvars, keystore, envelope, restarted, malformed, slash>>

SpecAuth == AuthInit /\ [][AuthNext]_vars

\* ensure_trailing_slashes on every url of up to MaxUrlLen characters
SlashInit ==
    /\ BackupIdle /\ dbMarket = "None" /\ NotifyInit /\ keystore = <<>>
    /\ envelope = NoEnvelope /\ restarted = "no" /\ malformed = {}
    /\ auth = InitialAccount
    /\ \E u \in UrlTexts : slash = [stage |-> "input", url |-> u, once |-> <<>>, twice |-> <<>>]

SlashNext ==
    \/ SlashOnce
          /\ UNCHANGED <<bvars, nvars, keystore, envelope, restarted, malformed, auth>>
    \/ SlashTwice
          /\ UNCHANGED <<bvars, nvars, keystore, envelope, restarted, malformed, auth>>

SpecSlashes == SlashInit /\ [][SlashNext]_vars

\* list over tables longer than the default limit: the table after hi
\* notify calls and a restart of the server, rows deleted here and there
ListInit ==
    /\ BackupIdle /\ dbMarket = "None" /\ keystore = <<>> /\ envelope = NoEnvelope /\ restarted = "no" /\ malformed = {} /\ NoAuthSlash
    /\ npc = [p \in Handles |-> "idle"]
    /\ nloc = [p \in Handles |-> NoNLocals]
    /\ \E hi \in 0..MaxListRows :
          /\ rows = {[id |-> i, key |-> <<"None", "warning", "disk-low">>] : i \in 1..hi}
          /\ nextId = hi + 1
    /\ unread = 0
    /\ cache = [k \in Keys |-> NoEntry]
    /\ now = 0
    /\ ins = 0
    /\ admitAt = [k \in Keys |-> NoAdmit]
    /\ ev = NoEvent

ListNext ==
    \/ \E b \in {None, 1, 2, MaxListRows, MaxListRows + 1},
          l \in {None, DefaultLimit + 1} \cup (0..MaxLimit) :
          Observed /\ List(b, l) /\ UNCHANGED <<bvars, svars>>
    \/ \E id \in {1, 2, MaxListRows - 1} :
          Observed /\ Delete(id) /\ UNCHANGED <<bvars, svars>>
    \/ Observe /\ UNCHANGED <<bvars, svars>>

SpecList == ListInit /\ [][ListNext]_vars

\* to_vec and from_slice over every value of BackupMetadata
EnvelopeInit ==
    /\ BackupIdle /\ dbMarket = "None" /\ NotifyInit /\ keystore = <<>>
    /\ restarted = "no" /\ malformed = {} /\ NoAuthSlash
    /\ \E m \in Metadatas : envelope = [NoEnvelope EXCEPT !.pc = "value", !.m = m]

EnvelopeNext ==
    \/ EncodeMetadata /\ UNCHANGED <<bvars, nvars, keystore, restarted, malformed, auth, slash>>
    \/ LackFields /\ UNCHANGED <<bvars, nvars, keystore, restarted, malformed, auth, slash>>
    \/ DamageBuffer /\ UNCHANGED <<bvars, nvars, keystore, restarted, malformed, auth, slash>>
    \/ DecodeMetadata /\ UNCHANGED <<bvars, nvars, keystore, restarted, malformed, auth, slash>>

SpecEnvelope == EnvelopeInit /\ [][EnvelopeNext]_vars

(***************************************************************************)
(* Properties of create and restore                                        *)
(***************************************************************************)
Targets == {ArchivePath, MetadataPath}
Renamed(path) ==
    IF path = ArchivePath THEN \E i \in DOMAIN g.steps : g.steps[i] = "save_archive"
    ELSE \E i \in DOMAIN g.steps : g.steps[i] = "save_metadata"
NewContent(path) ==
    IF path = ArchivePath THEN ArchiveOf(gen, "full")
    ELSE BackupMetadata(gen, "full", bl.timestamp, bl.network_keys, bl.tor_keys,
                        bl.marketplace_url)

\* C1: at every point of a create call, and after a crash or failure at any
\* step, each target path (archive, metadata.cbor) holds exactly its pre-call
\* content until its rename and exactly the complete new content after it;
\* partially written content is never at a target path.
C1_AtomicCommit ==
    bop = "create" =>
        \A path \in Targets :
            /\ fs[path].part \in {"absent", "full"}
            /\ Renamed(path) => fs[path] = NewContent(path)
            /\ ~Renamed(path) => fs[path] = g.pre[path]

C1_Witness ==
    /\ bop = "create"
    /\ bpc = "crashed"
    /\ g.pre[ArchivePath].part = "full"
    /\ fs[TmpPath(ArchivePath)].part = "partial"

\* C2: after a create call that crashed or failed at any step, the artifact
\* (archive together with metadata.cbor) is the complete prior artifact or
\* the complete new one.
C2_ArtifactWhole ==
    (bop = "create" /\ bpc \in {"crashed", "done"}) =>
        \/ fs[ArchivePath] = g.pre[ArchivePath] /\ fs[MetadataPath] = g.pre[MetadataPath]
        \/ fs[ArchivePath] = NewContent(ArchivePath) /\ fs[MetadataPath] = NewContent(MetadataPath)

CreateSteps ==
    <<"mkdir", "procedure", "keys", "db_read", "open", "copy", "save_archive",
      "timestamp", "write_metadata", "save_metadata">>

C4_NoMetadataIsFilesystemError ==
    (bop = "restore" /\ bpc = "done" /\ g.pre[MetadataPath].part = "absent") =>
        /\ bresult.kind = "Filesystem"
        /\ g.dbWrites = 0
        /\ g.reconfigCalls = 0

\* C4 amended: restore without a metadata file always fails, writes nothing
\* to the installed record and does not reconfigure; the error is the
\* Filesystem error of the read when the restore procedure, which runs first,
\* succeeded, and the procedure's own error otherwise.
C4_NoMetadataFails ==
    (bop = "restore" /\ bpc = "done" /\ g.pre[MetadataPath].part = "absent") =>
        /\ bresult.kind # "Ok"
        /\ g.procOutcome = "ok" =>
              /\ bresult = Err("Filesystem", MetadataPath)
              /\ g.steps = <<"volumes", "procedure", "read_metadata">>
        /\ g.procOutcome = "procerr" => bresult.kind = "Restore"
        /\ g.dbWrites = 0
        /\ g.reconfigCalls = 0
        /\ dbMarket = g.dbPre

C4_Witness ==
    /\ bop = "restore" /\ bpc = "done"
    /\ g.pre[MetadataPath].part = "absent"
    /\ g.pre[ArchivePath].part = "full"
    /\ g.procOutcome = "ok"
    /\ bresult.kind = "Filesystem"

\* C9: when the create procedure reports a non-success result, create
\* returns a Backup error carrying the procedure's message, the procedure
\* ran exactly once and no later step ran: no key export, no archive or
\* metadata commit, every file as before the call.
C9_CreateProcedureFailure ==
    (bop = "create" /\ g.procOutcome = "procerr") =>
        /\ bpc = "done"
        /\ bresult = Err("Backup", g.procMsg)
        /\ g.procMsg \in ProcMsgs
        /\ g.procCalls = 1
        /\ g.steps = <<"mkdir", "procedure">>
        /\ fs = g.pre

C9_Witness ==
    /\ bop = "create" /\ bpc = "done"
    /\ g.procOutcome = "procerr"
    /\ g.procMsg = "disk full"
    /\ g.pre[ArchivePath].part = "full"
    /\ g.pre[MetadataPath].part = "full"

\* C10: when the restore procedure reports a non-success result, restore
\* returns a Restore error carrying the procedure's message, the procedure
\* ran exactly once, the envelope was not read, marketplace_url was not
\* written and dependent reconfiguration was not invoked.
C10_RestoreProcedureFailure ==
    (bop = "restore" /\ g.procOutcome = "procerr") =>
        /\ bpc = "done"
        /\ bresult = Err("Restore", g.procMsg)
        /\ g.procMsg \in ProcMsgs
        /\ g.procCalls = 1
        /\ g.steps = <<"volumes", "procedure">>
        /\ g.metaReads = 0
        /\ g.dbWrites = 0
        /\ g.reconfigCalls = 0
        /\ dbMarket = g.dbPre

C10_Witness ==
    /\ bop = "restore" /\ bpc = "done"
    /\ g.procOutcome = "procerr"
    /\ g.procMsg = "disk full"
    /\ g.pre[MetadataPath].part = "full"
    /\ g.pre[MetadataPath].marketplace_url # dbMarket

(***************************************************************************)
(* Properties of the notification ledger                                   *)
(***************************************************************************)
\* C5: between operations the unread counter equals the number of rows
\* inserted since it was last reset to zero, also after notify calls that
\* failed part-way.
C5_CounterEqualsInserted == AllIdle => unread = ins

\* C6: of two notify calls with the same key, the first admitted and
\* finished, the second one (with debounce interval I) is suppressed exactly
\* when it comes less than I after the first, whatever whole seconds the two
\* instants fall in.
C6_DebounceByInstants ==
    (ev.op = "should_notify" /\ ev.interval # None /\ ev.prevDone) =>
        (ev.admitted <=> ev.at - ev.prevAdmitAt >= ev.interval * TicksPerSec)

\* C7 as stated: a call is admitted exactly when the cache has no entry, or
\* debounce_interval is absent, or the elapsed time exceeds debounce_interval.
C7_AdmittedWhenExceeds ==
    ev.op = "should_notify" =>
        (ev.admitted <=>
            \/ ev.cacheBefore[ev.key] = NoEntry
            \/ ev.interval = None
            \/ Timestamp(ev.at) - ev.cacheBefore[ev.key] > ev.interval)

\* C7 amended: a call is admitted exactly when the cache has no entry, or
\* debounce_interval is absent, or the elapsed time in whole seconds is at
\* least debounce_interval; an admitted call sets the cache entry to the
\* current timestamp and goes on to the database; any other call returns
\* success and leaves cache, rows and counter unchanged.
C7_AdmittedWhenAtLeast ==
    ev.op = "should_notify" =>
        /\ ev.admitted <=>
              \/ ev.cacheBefore[ev.key] = NoEntry
              \/ ev.interval = None
              \/ Timestamp(ev.at) - ev.cacheBefore[ev.key] >= ev.interval
        /\ ev.admitted =>
              /\ cache = [ev.cacheBefore EXCEPT ![ev.key] = Timestamp(ev.at)]
              /\ npc[ev.handle] = "n_get"
        /\ ~ev.admitted =>
              /\ ev.result = "Ok"
              /\ AllIdle
              /\ cache = ev.cacheBefore
        /\ rows = ev.rowsBefore
        /\ unread = ev.unreadBefore

C7_Witness ==
    /\ ev.op = "should_notify"
    /\ ev.admitted
    /\ ev.interval = 1
    /\ ev.cacheBefore[ev.key] # NoEntry
    /\ Timestamp(ev.at) - ev.cacheBefore[ev.key] = 1

\* C8: a successful list with before absent leaves the unread counter at
\* zero whatever it was and whatever the limit; with before present it
\* leaves the counter as it was.
C8_ListResetsUnread ==
    (ev.op = "list" /\ ev.ok) =>
        /\ ev.before = None => unread = 0
        /\ ev.before # None => unread = ev.unreadBefore

C8_Witness ==
    /\ ev.op = "list" /\ ev.ok
    /\ ev.before = None
    /\ ev.limit = 1
    /\ ev.unreadBefore = 2
    /\ Len(ev.returned) = 1
    /\ unread = 0

RestoreSteps ==
    <<"volumes", "procedure", "read_metadata", "db_write", "db_read", "reconfigure">>

\* C11: a successful restore reconfigures the dependents exactly once, after
\* the restore procedure succeeded, the envelope was decoded and the
\* marketplace_url was written; a restore that fails before that write never
\* reconfigures; a failed reconfiguration makes restore return an error.
C11_ReconfigureOnceAfterWrite ==
    bop = "restore" =>
        /\ (bpc = "done" /\ bresult.kind = "Ok") =>
               /\ g.steps = RestoreSteps
               /\ g.procOutcome = "ok"
               /\ g.metaReads = 1
               /\ g.dbWrites = 1
               /\ g.reconfigCalls = 1
        /\ g.dbWrites = 0 => g.reconfigCalls = 0
        /\ g.reconfigOutcome = "err" =>
               /\ bpc = "done"
               /\ bresult.kind \notin {"Ok", "none"}

C11_Witness ==
    /\ bop = "restore" /\ bpc = "done" /\ bresult.kind = "Ok"
    /\ g.reconfigCalls = 1
    /\ g.reconfigOutcome = "ok"

\* C12: after a successful create and a later successful restore the
\* installed record's marketplace_url is the value the record held when
\* create read it (absent included), and the record handed to the
\* reconfiguration of the dependents already carries that value.
C12_MarketplaceRoundTrip ==
    bop = "restore" =>
        /\ (bpc = "done" /\ bresult.kind = "Ok") => dbMarket = g.lastRead
        /\ g.reconfigCalls = 1 => g.reconfigEntry = g.lastRead

C12_Witness ==
    /\ bop = "restore" /\ bpc = "done" /\ bresult.kind = "Ok"
    /\ g.lastRead = "None"
    /\ g.dbPre # "None"
    /\ g.reconfigEntry = "None"

\* C13: when the reconfiguration of the dependents fails, restore returns
\* that error and compensates nothing: marketplace_url keeps the envelope's
\* value, the restore procedure ran once and no file was touched.
C13_NoCompensation ==
    (bop = "restore" /\ g.reconfigOutcome = "err") =>
        /\ bresult = Err("Dependents", "reconfigure")
        /\ dbMarket = bl.metadata.marketplace_url
        /\ g.dbWrites = 1
        /\ g.procCalls = 1
        /\ fs = g.pre

C13_Witness ==
    /\ bop = "restore" /\ bpc = "done"
    /\ g.reconfigOutcome = "err"
    /\ dbMarket # g.dbPre

\* C14: create only reads the installed state: the installed record is the
\* same at every point of a create call as it was when the call began, and
\* every declared volume reaches the create procedure read-only (none is
\* made writable), next to the backup volume.
C14_CreateReadsInstalledState ==
    bop = "create" =>
        /\ dbMarket = g.dbPre
        /\ g.procCalls = 1 =>
               /\ DOMAIN g.procVolumes = DOMAIN DeclaredVolumes \cup {BackupVolume}
               /\ \A v \in DOMAIN DeclaredVolumes \ {BackupVolume} : g.procVolumes[v]

C14_Witness ==
    /\ bop = "create" /\ bpc = "done" /\ bresult.kind = "Ok"
    /\ dbMarket # "None"
    /\ ~DeclaredVolumes["main"]
    /\ g.procVolumes["main"]
    /\ ~g.procVolumes[BackupVolume]

\* C15: when the key export or the read of marketplace_url fails, create
\* returns an error and has committed neither the archive nor the metadata
\* (no file of the backup directory has changed); a create call that commits
\* a file has exported the keys and read marketplace_url before.
C15_ExportOrReadFailureCommitsNothing ==
    bop = "create" =>
        /\ g.failedAt # "none" =>
               /\ bpc = "done"
               /\ bresult.kind \notin {"Ok", "none"}
               /\ g.steps[Len(g.steps)] = g.failedAt
               /\ fs = g.pre
        /\ (Renamed(ArchivePath) \/ Renamed(MetadataPath)) =>
               /\ g.failedAt = "none"
               /\ SubSeq(g.steps, 1, 4) = SubSeq(CreateSteps, 1, 4)

C15_Witness ==
    /\ bop = "create" /\ bpc = "done"
    /\ g.failedAt = "db_read"
    /\ bresult.kind = "Database"
    /\ g.pre[MetadataPath].part = "full"

(***************************************************************************)
(* Properties of the exported keys                                         *)
(***************************************************************************)
Envelopes == {fs[p] : p \in {MetadataPath, TmpPath(MetadataPath)}}

\* C16: in every envelope that create writes, network_keys and tor_keys
\* have the same interface ids, and under each id the tor key is derived
\* from the very key whose bytes network_keys holds under that id, a key of
\* the store bound to that interface.
C16_TorKeysMirrorNetworkKeys ==
    \A e \in Envelopes :
        e.part = "full" =>
            /\ DOMAIN e.network_keys = DOMAIN e.tor_keys
            /\ \A i \in DOMAIN e.network_keys :
                   /\ e.network_keys[i].enc = "base64"
                   /\ e.tor_keys[i].enc = "base32"
                   /\ e.tor_keys[i].key = e.network_keys[i].key
                   /\ \E n \in DOMAIN keystore :
                          keystore[n] = Key(e.network_keys[i].key, i)

C16_Witness ==
    /\ bop = "create" /\ bpc = "done" /\ bresult.kind = "Ok"
    /\ \E n, m \in DOMAIN keystore :
          /\ n < m
          /\ keystore[n].interface = "main"
          /\ keystore[m].interface = "main"
    /\ "main" \in DOMAIN fs[MetadataPath].tor_keys

\* C17: the envelope's network_keys has an entry for exactly the interfaces
\* that some exported key is bound to: a key without interface adds no entry
\* (and create still succeeds), and keys K1, K2 bound to two interfaces give
\* exactly two entries.
C17_EntriesAreBoundInterfaces ==
    \A e \in Envelopes :
        e.part = "full" =>
            /\ DOMAIN e.network_keys =
                  {keystore[n].interface : n \in DOMAIN keystore} \ {NoInterface}
            /\ keystore = TwoInterfaceKeys => Cardinality(DOMAIN e.network_keys) = 2

C17_Witness ==
    /\ bop = "create" /\ bpc = "done" /\ bresult.kind = "Ok"
    /\ keystore = <<Key(1, "main"), Key(2, NoInterface), Key(3, "ui")>>
    /\ DOMAIN fs[MetadataPath].network_keys = {"main", "ui"}

C19_DeleteFrame ==
    ev.op \in {"delete", "delete_before"} =>
        /\ unread = ev.unreadBefore
        /\ cache = ev.cacheBefore
        /\ ev.result \in {"Ok", "Database"}
        /\ (ev.result = "Ok" /\ ev.op = "delete") =>
               rows = {r \in ev.rowsBefore : r.id # ev.id}
        /\ (ev.result = "Ok" /\ ev.op = "delete_before") =>
               rows = {r \in ev.rowsBefore : r.id >= ev.id}

C19_Witness ==
    /\ ev.op = "delete_before" /\ ev.result = "Ok"
    /\ ev.id = 2
    /\ Cardinality(ev.rowsBefore) = 2
    /\ Cardinality(rows) = 1
    /\ \E r \in rows : r.id = 2
    /\ unread = 2
    /\ \E k \in Keys : cache[k] # NoEntry

\* a delete that matches no row succeeds and leaves the table as it was
C19_WitnessNoMatch ==
    /\ ev.op = "delete" /\ ev.result = "Ok"
    /\ ev.rowsBefore # {}
    /\ \A r \in ev.rowsBefore : r.id # ev.id
    /\ rows = ev.rowsBefore

\* C20: a successful list(before, limit) returns at most limit notifications
\* (40 when limit is absent), each of a row of the table with id < before
\* when before is given, in strictly descending order of id, and they are
\* the largest such ids: every qualifying row left out has a smaller id than
\* every returned one; list changes no row.
C20_ListPage ==
    (ev.op = "list" /\ ev.ok) =>
        LET ret == ev.returned
            lim == IF ev.limit = None THEN DefaultLimit ELSE ev.limit
            Q == {r.id : r \in {q \in ev.rowsBefore : ev.before = None \/ q.id < ev.before}}
            R == {ret[i] : i \in DOMAIN ret}
        IN  /\ Len(ret) <= lim
            /\ R \subseteq Q
            /\ \A i, j \in DOMAIN ret : i < j => ret[i] > ret[j]
            /\ \A q \in Q \ R : \A x \in R : q < x
            /\ Len(ret) < lim => R = Q
            /\ rows = ev.rowsBefore

C20_Witness ==
    /\ ev.op = "list" /\ ev.ok
    /\ ev.limit = None
    /\ ev.before = MaxListRows + 1
    /\ Cardinality(ev.rowsBefore) = DefaultLimit + 1
    /\ Len(ev.returned) = DefaultLimit
    /\ ev.returned[1] = MaxListRows
    /\ \E r \in ev.rowsBefore : r.id = 1

(***************************************************************************)
(* Properties of notify under failures and concurrency                     *)
(***************************************************************************)
\* C21: an admitted notify call whose INSERT fails returns a Database error
\* to its caller, with no row and no counter change; a call suppressed by
\* the debounce returns success at once: it reads no counter and inserts no
\* row.
C21_InsertFailureIsDatabaseError ==
    /\ (ev.op = "insert" /\ ev.failed = "insert") =>
           /\ ev.result = "Database"
           /\ npc[ev.handle] = "idle"
           /\ rows = ev.rowsBefore
           /\ unread = ev.unreadBefore
    /\ (ev.op = "should_notify" /\ ~ev.admitted) =>
           /\ ev.result = "Ok"
           /\ npc[ev.handle] = "idle"
           /\ rows = ev.rowsBefore
           /\ unread = ev.unreadBefore

C21_Witness ==
    /\ ev.op = "insert" /\ ev.failed = "insert"
    /\ ev.result = "Database"
    /\ npc[ev.handle] = "idle"
    /\ cache[<<"None", "warning", "disk-low">>] # NoEntry

\* C22: of notify calls with the same key and the same debounce interval I
\* that run at the same time, a call whose check comes less than I after
\* the check of an admitted one that is still running is not admitted.
C22_OneAdmittedWithinInterval ==
    (/\ ev.op = "should_notify"
     /\ ev.prevAdmitAt # NoEntry
     /\ \E q \in Handles \ {ev.handle} : npc[q] # "idle" /\ nloc[q].key = ev.key
     /\ ev.at - ev.prevAdmitAt < ev.interval * TicksPerSec)
    => ~ev.admitted

\* C23: when every notify call has returned, the unread counter is the
\* number of rows inserted since list(before = None) last put it to zero,
\* however the calls of the two handles and of list were interleaved.
C23_NoLostIncrement ==
    (\A p \in Handles : npc[p] = "idle") => unread = ins

(***************************************************************************)
(* Database accesses of create and restore                                 *)
(***************************************************************************)
DbSteps == {"db_read", "db_write", "receipts", "reconfigure"}

\* C24: create and restore touch the database (read of marketplace_url in
\* create; put of marketplace_url, read of the entry and the receipts of
\* reconfiguration in restore) only after the procedure has returned
\* successfully: while it runs they have taken no database lock.
C24_NoDatabaseAccessBeforeProcedure ==
    bop \in {"create", "restore"} =>
        /\ \A i \in DOMAIN g.steps :
               g.steps[i] \in DbSteps =>
                   /\ g.procOutcome = "ok"
                   /\ \E j \in 1..(i - 1) : g.steps[j] = "procedure"
        /\ bpc \in {"c_proc", "r_proc"} =>
               /\ g.procCalls = 0
               /\ \A i \in DOMAIN g.steps : g.steps[i] \notin DbSteps

C24_Witness ==
    /\ bop = "restore" /\ bpc = "r_reconf"
    /\ g.steps = <<"volumes", "procedure", "read_metadata", "db_write", "db_read">>
    /\ g.procCalls = 1

\* C25: after a restart that found the ledger in order (no call running,
\* counter equal to the rows inserted since the last reset) the first notify
\* call for a key is admitted, every row's id is below the id the next row
\* gets, and between calls the counter still equals the rows inserted since
\* the last reset.
C25_CacheLossKeepsInvariants ==
    restarted = "clean" =>
        /\ (ev.op = "should_notify" /\ ev.prevAdmitAt = NoEntry) => ev.admitted
        /\ \A r \in rows : r.id < nextId
        /\ AllIdle => unread = ins

\* C26: a list call that reads a stored row with a malformed field (level,
\* data or package_id) fails with ParseDbField and returns no notification,
\* and with before absent it leaves the unread counter as it was.
C26_MalformedRowFailsList ==
    (/\ ev.op = "list"
     /\ \E i \in DOMAIN ev.read : \E m \in malformed : m.id = ev.read[i]) =>
        /\ ev.result = "ParseDbField"
        /\ ev.returned = <<>>
        /\ ev.before = None => unread = ev.unreadBefore

\* C27: the debounce cache records only persisted events: between calls a
\* key with a cache entry has a row in the table (no row is deleted here),
\* and a notify call that finds an entry for its key but no row of that key,
\* the entry of a call that failed before its INSERT, is admitted.
C27_CacheRecordsOnlyPersisted ==
    /\ AllIdle => \A k \in Keys :
          cache[k] # NoEntry => \E r \in rows : r.key = k
    /\ (/\ ev.op = "should_notify"
        /\ ev.cacheBefore[ev.key] # NoEntry
        /\ \A r \in ev.rowsBefore : r.key # ev.key) => ev.admitted

\* C28: reset_password changes the account record of the secret store and
\* the password hash of the database only when the old password verifies
\* against the account's hash; with an incorrect old password the call
\* returns IncorrectPassword and leaves both as they were; after a
\* successful call both hold the hash of the new password.
C28_ResetPasswordVerifiesFirst ==
    LET wrong == ~VerifyEncoded(auth.wasAccount, auth.old) IN
    /\ (auth.old \in Passwords /\ wrong /\ auth.pc # "verify") =>
          /\ auth.pc = "idle"
          /\ auth.result = "IncorrectPassword"
          /\ auth.store = auth.wasStore
          /\ auth.db = auth.wasDb
    /\ (auth.store # auth.wasStore \/ auth.db # auth.wasDb) =>
          auth.old \in Passwords /\ ~wrong
    /\ auth.result = "Ok" =>
          /\ auth.store = HashEncoded(auth.new)
          /\ auth.db = HashEncoded(auth.new)

C28_Witness ==
    /\ auth.pc = "idle"
    /\ auth.result = "IncorrectPassword"
    /\ auth.old = "pw1"
    /\ auth.new = "pw1"
    /\ auth.store = HashEncoded("pw2")
    /\ auth.db = HashEncoded("pw2")

EndsWithSlash(url) == Len(url) > 0 /\ url[Len(url)] = "/"

\* C29: ensure_trailing_slashes returns a url that ends with '/' as it is
\* and any other url with one '/' appended; its result ends with '/', and
\* applied to its own result it returns that result.
C29_EnsureTrailingSlashes ==
    /\ slash.stage \in {"once", "twice"} =>
          /\ EndsWithSlash(slash.url) => slash.once = slash.url
          /\ ~EndsWithSlash(slash.url) => slash.once = slash.url \o <<"/">>
          /\ EndsWithSlash(slash.once)
    /\ slash.stage = "twice" => slash.twice = slash.once

C29_Witness ==
    /\ slash.stage = "twice"
    /\ slash.url = <<"/", "\n", "a">>
    /\ slash.twice = <<"/", "\n", "a", "/">>

====
